---- MODULE Spec2Model ----
(***************************************************************************)
(* Model of custom_components/openmediavault/omv_controller.py:            *)
(* OMVControllerData, the poll coordinator of the OpenMediaVault           *)
(* integration.  Two interval timers start update cycles on one asyncio    *)
(* event loop; every cycle takes self.lock with a bounded wait, runs its   *)
(* get_* sub-fetches one after the other in the executor and releases the  *)
(* lock.  A step of the model is what one coroutine does between two       *)
(* suspension points (await), the executor job it waited for included.     *)
(***************************************************************************)
EXTENDS Naturals, Integers, Sequences, FiniteSets, TLC

\* ------------------------------------------------------------------ bounds
\* coroutine slots: how many timer callbacks may be in flight at once
NProcs == 2
\* how many times the set-up code may call async_init
MaxInit == 2
\* how many dispatcher listeners the platforms register
MaxListeners == 1
\* how many seconds of wall-clock time the interval timers are followed for
Horizon == 7200
\* how many different contents the device can report for one category
MaxVal == 2
\* the largest uptime, in seconds, the device is taken to report
MaxUptime == 90061
\* the largest negative uptime count: -MaxNegUptime seconds
MaxNegUptime == 100
\* the largest memTotal and memUsed the device is taken to report
MaxMem == 200

Procs == 1..NProcs
\* self.lock is free
None == 0
\* self.lock is locked and the coroutine that locked it has ended
Orphan == NProcs + 1

\* the categories of self.data; "smart" is the slice of the disk records
\* that get_smart writes (lines 309-356), kept apart from the inventory
\* fields that get_disk reads from the enumeration
Cats == {"hwinfo", "plugin", "disk", "fs", "smart", "service"}
\* the categories of self.data as lines 54-60 name them
SnapCats == {"hwinfo", "plugin", "disk", "fs", "service"}
\* what a category holds: nothing (the {} of lines 54-60), or device data
CatVals == {"empty", "set"}

VARIABLES
    pc,            \* [Procs -> position of the coroutine in the slot]
    caller,        \* [Procs -> "timer" | "async_update"]: who called async_hwinfo_update
    lock,          \* self.lock: None, the coroutine that acquired it, or Orphan
    data,          \* self.data
    conn,          \* self.api.connected()
    reconn,        \* what self.api.has_reconnected() will answer
    listeners,     \* len(self.listeners)
    updateTimers,  \* live interval timers calling force_update
    hwinfoTimers,  \* live interval timers calling force_hwinfo_update
    stopped,       \* async_reset has returned
    pending,       \* a change signal is on its way to the consumers
    unmatched,     \* history: dispatcher sends minus completed async_update calls
    ran,           \* history: [Procs -> events of the coroutine's current cycle]
    resync,        \* history: [Procs -> fate of the resync of line 154, kept
                   \*           until the first sub-fetch of line 161 is over]
    last,          \* history: how the callback that returned last ended
    strayWrite,    \* history: some write to self.data was made without the lock
    now,           \* seconds since the set-up code called async_init
    updateFired,   \* history: calls of force_update made by the interval timers
    hwinfoFired,   \* history: calls of force_hwinfo_update made by the timers
    snap,          \* self.data, by content: 0 is {}, 1..MaxVal what the device sent
    at,            \* where the cycle that owns the lock stands
    up,            \* self.api.connected(), for the cycles over snap
    before,        \* history: snap when the current (or last) cycle started
    trail,         \* history: the sub-fetches the current (or last) cycle ran
    hwRaw,         \* the answer to System.getInformation that get_hwinfo parses
    hwOut,         \* what get_hwinfo made of hwRaw
    disk,          \* self.data["disk"]: [device names in it -> disk record]
    did,           \* history: which of get_disk and get_smart ran last
    listed,        \* history: the device names of the last enumeration
    queried        \* history: [names in disk -> how the two SMART queries
                   \*           of the last get_smart went for the disk]

\* the wall clock and what the interval timers did with it
clockVars == <<now, updateFired, hwinfoFired>>

\* the state the update cycles of Spec and SpecRun leave alone
\* one cycle at a time over the contents of the snapshot
cycleVars == <<snap, at, up, before, trail>>

\* one call of get_hwinfo
hwVars == <<hwRaw, hwOut>>

\* the disk records, between get_disk and get_smart
diskVars == <<disk, did, listed, queried>>

detail == <<clockVars, cycleVars, hwVars, diskVars>>

\* what the steps of one view of the program leave alone
clockRest == <<cycleVars, hwVars, diskVars>>
cycleRest == <<clockVars, hwVars, diskVars>>
hwRest == <<clockVars, cycleVars, diskVars>>
diskRest == <<clockVars, cycleVars, hwVars>>

\* the coordinator and its update cycles
core == <<pc, caller, lock, data, conn, reconn, listeners, updateTimers,
          hwinfoTimers, stopped, pending, unmatched, ran, resync, last,
          strayWrite>>

vars == <<pc, caller, lock, data, conn, reconn, listeners, updateTimers,
          hwinfoTimers, stopped, pending, unmatched, ran, resync, last,
          strayWrite, detail>>

\* positions at which a coroutine holds the lock and has a sub-fetch to run
FastFetchPos == {"h_hwinfo", "h_plugin", "h_disk"}
SlowFetchPos == {"u_hwinfo", "u_fs", "u_smart", "u_service"}
FetchPos == FastFetchPos \cup SlowFetchPos
\* a slot is idle (no callback in it), or its callback waits for the lock
\* (line 128 or 157) or is at a sub-fetch
Positions == FetchPos \cup {"idle", "h_wait", "u_wait"}

\* the record of a callback that returned: which one it was, whether its
\* last lock wait expired, the events of its last cycle, what became of its
\* resync, and whether it owned the lock when it called the dispatcher
Ended(k, h, evs, rs, lk) ==
    [kind |-> k, how |-> h, ran |-> evs, resync |-> rs, sentWith |-> lk]

\* the lowest idle slot: the one a timer callback starts in
FreeSlot(p) == pc[p] = "idle" /\ \A q \in Procs : q < p => pc[q] # "idle"

TypeOK ==
    /\ pc \in [Procs -> Positions]
    /\ caller \in [Procs -> {"timer", "async_update"}]
    /\ lock \in Procs \cup {None, Orphan}
    /\ data \in [Cats -> CatVals]
    /\ conn \in BOOLEAN /\ reconn \in BOOLEAN /\ stopped \in BOOLEAN
    /\ listeners \in 0..MaxListeners
    /\ updateTimers \in 0..MaxInit /\ hwinfoTimers \in 0..MaxInit
    /\ pending \in BOOLEAN /\ strayWrite \in BOOLEAN
    /\ unmatched \in Int
    /\ resync \in [Procs -> {"no", "pending", "done", "skipped"}]
    /\ last.kind \in {"fast", "slow"}
    /\ last.how \in {"none", "timedout", "returned", "raised"}
    /\ last.resync \in {"no", "done", "skipped"}
    /\ last.sentWith \in {"none", "held", "released"}
    /\ \A p \in Procs : pc[p] = "idle" => ran[p] = <<>> /\ resync[p] = "no"
    /\ now \in Nat /\ updateFired \in Nat /\ hwinfoFired \in Nat
    /\ snap \in [SnapCats -> 0..MaxVal] /\ before \in [SnapCats -> 0..MaxVal]
    /\ at \in FetchPos \cup {"idle", "stuck"}
    /\ up \in BOOLEAN
    /\ hwRaw.connected \in BOOLEAN /\ hwRaw.asked \in BOOLEAN
    /\ hwOut.done \in BOOLEAN /\ hwOut.raised \in BOOLEAN
    /\ hwOut.derived \in BOOLEAN
    /\ hwOut.tmp_uptime \in Int /\ hwOut.memUsage \in Int
    /\ did \in {"nothing", "get_disk", "get_smart"}
    /\ DOMAIN queried = DOMAIN disk
    /\ \A k \in DOMAIN disk :
         /\ disk[k].devicename = k
         /\ queried[k].info \in {"notasked", "none", "ok"}
         /\ queried[k].attrs \in {"notasked", "none", "ok"}
    /\ trail.kind \in {"fast", "slow"}
    /\ \A i \in 1..Len(trail.ran) :
         /\ trail.ran[i].cat \in SnapCats
         /\ trail.ran[i].val \in 0..MaxVal
         /\ trail.ran[i].merged \in BOOLEAN /\ trail.ran[i].up \in BOOLEAN

\* no cycle has run over the contents
CycleIdle ==
    /\ snap = [c \in SnapCats |-> 0]
    /\ at = "idle"
    /\ up = FALSE
    /\ before = [c \in SnapCats |-> 0]
    /\ trail = [kind |-> "fast", ran |-> <<>>]

\* a field the answer does not carry
Absent == [t |-> "absent", n |-> 0, s |-> <<>>]
\* a field holding the number n, or the text s as a sequence of characters
Num(n) == [t |-> "int", n |-> n, s |-> <<>>]
Txt(s) == [t |-> "str", n |-> 0, s |-> s]

\* get_hwinfo has not derived anything
NotDerived ==
    [done |-> FALSE, raised |-> FALSE, derived |-> FALSE, res |-> <<>>,
     tmp_uptime |-> 0, memUsage |-> 0, cpuUsage |-> 0]

\* no answer has come: get_hwinfo has not been called
NoAnswer ==
    [asked |-> FALSE, connected |-> FALSE, version |-> Absent,
     uptime |-> Absent, memUsed |-> Absent, memTotal |-> Absent,
     cpuUsage |-> Absent]

HwIdle == hwRaw = NoAnswer /\ hwOut = NotDerived

\* self.data["disk"] is the {} of line 57 and neither get_disk nor
\* get_smart has run
DiskIdle ==
    /\ disk = [k \in {} |-> Absent]
    /\ did = "nothing"
    /\ listed = {}
    /\ queried = [k \in {} |-> Absent]

\* no time has passed and no timer has fired
ClockIdle == now = 0 /\ updateFired = 0 /\ hwinfoFired = 0

\* __init__, lines 47-75
Init ==
    /\ ClockIdle
    /\ CycleIdle
    /\ HwIdle
    /\ DiskIdle
    /\ pc = [p \in Procs |-> "idle"]
    /\ caller = [p \in Procs |-> "timer"]
    /\ lock = None
    /\ data = [c \in Cats |-> "empty"]
    /\ conn = FALSE
    /\ reconn = FALSE
    /\ listeners = 0
    /\ updateTimers = 0
    /\ hwinfoTimers = 0
    /\ stopped = FALSE
    /\ pending = FALSE
    /\ unmatched = 0
    /\ ran = [p \in Procs |-> <<>>]
    /\ resync = [p \in Procs |-> "no"]
    /\ last = Ended("fast", "none", <<>>, "no", "none")
    /\ strayWrite = FALSE

\* ------------------------------------------------- transport (self.api)
\* What one api.query call can do: answer ("ok"; full tells whether the
\* answer carries every declared field), return nothing ("none"), or raise
\* a transport error ("raise").
Responses ==
    [o : {"ok"}, full : BOOLEAN] \cup [o : {"none", "raise"}, full : {FALSE}]

\* connected() after a query that ended as r
ConnAfter(r) == r.o = "ok"

\* has_reconnected() after a query that ended as r: a query that succeeds
\* while the transport was down is a reconnection edge
ReconnAfter(r) == reconn \/ (r.o = "ok" /\ ~conn)

\* parse_api(data=old, source=r, key=...): the parsed answer when there is
\* one; with no source, the old data when no key is given and an empty
\* collection otherwise
parse_api(old, r, keyed) ==
    IF r.o = "ok" THEN "set" ELSE IF keyed THEN "empty" ELSE old

\* ------------------------------------------------------------ lifecycle
\* async_init, lines 80-86: registers one interval timer per callback; the
\* handles it stores do not stop an earlier call's timers
async_init ==
    /\ ~stopped
    /\ updateTimers < MaxInit
    /\ updateTimers' = updateTimers + 1
    /\ hwinfoTimers' = hwinfoTimers + 1
    /\ UNCHANGED <<pc, caller, lock, data, conn, reconn, listeners, stopped,
                   pending, unmatched, ran, resync, last, strayWrite>>
    /\ UNCHANGED detail

\* a platform appends the unsubscribe handle of its dispatcher connection
\* to self.listeners (the list of line 62)
AddListener ==
    /\ ~stopped
    /\ listeners < MaxListeners
    /\ listeners' = listeners + 1
    /\ UNCHANGED <<pc, caller, lock, data, conn, reconn, updateTimers,
                   hwinfoTimers, stopped, pending, unmatched, ran, resync, last,
                   strayWrite>>
    /\ UNCHANGED detail

\* async_reset, lines 99-105: calls every listener's unsubscribe handle,
\* empties the list and returns True; the two timer handles are not called
async_reset ==
    /\ ~stopped
    /\ listeners' = 0
    /\ stopped' = TRUE
    /\ UNCHANGED <<pc, caller, lock, data, conn, reconn, updateTimers,
                   hwinfoTimers, pending, unmatched, ran, resync, last,
                   strayWrite>>
    /\ UNCHANGED detail

\* ----------------------------------------------------------- fast cycle
\* force_hwinfo_update, lines 117-120, up to the wait of line 128
force_hwinfo_update(p) ==
    /\ hwinfoTimers > 0
    /\ FreeSlot(p)
    /\ pc' = [pc EXCEPT ![p] = "h_wait"]
    /\ UNCHANGED <<caller, lock, data, conn, reconn, listeners, updateTimers,
                   hwinfoTimers, stopped, pending, unmatched, ran, resync, last,
                   strayWrite>>
    /\ UNCHANGED detail

\* line 128, the wait succeeds: the lock is free and becomes p's; the
\* coroutine goes on to line 132
HAcquire(p) ==
    /\ pc[p] = "h_wait"
    /\ lock = None
    /\ lock' = p
    /\ pc' = [pc EXCEPT ![p] = "h_hwinfo"]
    /\ UNCHANGED <<caller, data, conn, reconn, listeners, updateTimers,
                   hwinfoTimers, stopped, pending, unmatched, ran, resync, last,
                   strayWrite>>
    /\ UNCHANGED detail

\* HTimeout with "pass" for the "return" of line 130: the coroutine goes on
\* to line 132 without the lock
HTimeout_FallsThrough(p) ==
    /\ pc[p] = "h_wait"
    /\ lock # None
    /\ pc' = [pc EXCEPT ![p] = "h_hwinfo"]
    /\ UNCHANGED <<caller, lock, data, conn, reconn, listeners, updateTimers,
                   hwinfoTimers, stopped, pending, unmatched, ran, resync, last,
                   strayWrite>>
    /\ UNCHANGED detail

\* lines 128-130, the 30 s wait expires while the lock stays locked:
\* async_hwinfo_update returns, to the timer or to line 156
HTimeout(p) ==
    /\ pc[p] = "h_wait"
    /\ lock # None
    /\ IF caller[p] = "async_update"
       THEN /\ pc' = [pc EXCEPT ![p] = "u_wait"]
            /\ caller' = [caller EXCEPT ![p] = "timer"]
            /\ resync' = [resync EXCEPT ![p] = "skipped"]
            /\ UNCHANGED last
       ELSE /\ pc' = [pc EXCEPT ![p] = "idle"]
            /\ last' = Ended("fast", "timedout", ran[p], "no", "none")
            /\ UNCHANGED <<caller, resync>>
    /\ UNCHANGED <<lock, data, conn, reconn, listeners, updateTimers,
                   hwinfoTimers, stopped, pending, unmatched, ran, strayWrite>>
    /\ UNCHANGED detail

\* ------------------------------------------------ the two fetch sequences
\* Where a cycle goes after a sub-fetch, c being what connected() answers.
\* The checks of one cycle that follow a skipped sub-fetch run without a
\* suspension point between them, so they all read the same c.
\* HAfterPlugin without the connected() check of line 135
HAfterPlugin_Unchecked(c) == "h_disk"

\* lines 135-138
HAfterPlugin(c) == IF c THEN "h_disk" ELSE "h_release"
\* lines 133-134
HAfterHwinfo(c) == IF c THEN "h_plugin" ELSE HAfterPlugin(c)
\* lines 166-169
UAfterSmart(c) == IF c THEN "u_service" ELSE "u_notify"
\* UAfterFs without the connected() check of line 164
UAfterFs_Unchecked(c) == "u_smart"

\* lines 164-165
UAfterFs(c) == IF c THEN "u_smart" ELSE UAfterSmart(c)
\* lines 162-163
UAfterHwinfo(c) == IF c THEN "u_fs" ELSE UAfterFs(c)

\* lines 198 and 386-391: int() of the default "unknown" raises ValueError
\* when the answer lacks version (get_hwinfo) or size/available (get_fs)
DerivedRaises(r) == r.o = "ok" /\ ~r.full

\* LockAtDispatch with lines 169 and 170 exchanged: the lock is free when
\* the dispatcher is called
LockAtDispatch_AfterRelease == None

\* who owns self.lock when line 169 calls async_dispatcher_send: line 170
\* has not run yet
LockAtDispatch == lock

\* EndFast with a dispatcher send before the release of line 138
EndFast_Sends(p, evs) ==
    /\ pending' = (pending \/ listeners > 0)
    /\ unmatched' = unmatched + 1
    /\ lock' = None
    /\ IF caller[p] = "async_update"
       THEN /\ pc' = [pc EXCEPT ![p] = "u_wait"]
            /\ caller' = [caller EXCEPT ![p] = "timer"]
            /\ resync' = [resync EXCEPT ![p] = "done"]
            /\ UNCHANGED last
       ELSE /\ pc' = [pc EXCEPT ![p] = "idle"]
            /\ last' = Ended("fast", "returned", evs, "no",
                             IF lock = p THEN "held" ELSE "released")
            /\ UNCHANGED <<caller, resync>>
    /\ ran' = [ran EXCEPT ![p] = <<>>]

\* line 138 and the return of async_hwinfo_update, to the timer callback or
\* to line 156 of async_update
EndFast(p, evs) ==
    /\ lock' = None
    /\ IF caller[p] = "async_update"
       THEN /\ pc' = [pc EXCEPT ![p] = "u_wait"]
            /\ caller' = [caller EXCEPT ![p] = "timer"]
            /\ resync' = [resync EXCEPT ![p] = "done"]
            /\ UNCHANGED last
       ELSE /\ pc' = [pc EXCEPT ![p] = "idle"]
            /\ last' = Ended("fast", "returned", evs, "no", "none")
            /\ UNCHANGED <<caller, resync>>
    /\ ran' = [ran EXCEPT ![p] = <<>>]
    /\ UNCHANGED <<pending, unmatched>>

\* EndSlow with line 169 indented under the connected() check of line 166:
\* a cycle that ends on a disconnect sends nothing
EndSlow_SendsIfConnected(p, evs) ==
    LET sends == evs[Len(evs)] # "down"
    IN  /\ pending' = (pending \/ (sends /\ listeners > 0))
        /\ lock' = None
        /\ unmatched' = (IF sends THEN unmatched + 1 ELSE unmatched) - 1
        /\ pc' = [pc EXCEPT ![p] = "idle"]
        /\ last' = Ended("slow", "returned", evs, "no",
                         IF ~sends THEN "none"
                         ELSE IF LockAtDispatch = p THEN "held" ELSE "released")
        /\ ran' = [ran EXCEPT ![p] = <<>>]
        /\ resync' = [resync EXCEPT ![p] = "no"]
        /\ UNCHANGED caller

\* lines 169-170 and the return of async_update: one dispatcher send, then
\* the release, then one more async_update call has completed
EndSlow(p, evs) ==
    /\ pending' = (pending \/ listeners > 0)
    /\ lock' = None
    /\ unmatched' = (unmatched + 1) - 1
    /\ pc' = [pc EXCEPT ![p] = "idle"]
    /\ last' = Ended("slow", "returned", evs, "no",
                     IF LockAtDispatch = p THEN "held" ELSE "released")
    /\ ran' = [ran EXCEPT ![p] = <<>>]
    /\ resync' = [resync EXCEPT ![p] = "no"]
    /\ UNCHANGED caller

\* an exception leaves the coroutine where it stands (no try/finally around
\* lines 132-138 and 161-170): the callback ends and nothing releases the
\* lock it holds
Raise(p) ==
    /\ pc' = [pc EXCEPT ![p] = "idle"]
    /\ lock' = IF lock = p THEN Orphan ELSE lock
    /\ last' = Ended(IF pc[p] \in SlowFetchPos \/ caller[p] = "async_update"
                     THEN "slow" ELSE "fast", "raised", <<>>, "no", "none")
    /\ caller' = [caller EXCEPT ![p] = "timer"]
    /\ ran' = [ran EXCEPT ![p] = <<>>]
    /\ resync' = [resync EXCEPT ![p] = "no"]
    /\ UNCHANGED <<pending, unmatched>>

\* One sub-fetch of coroutine p and the lines that follow it up to the next
\* await: the executor job (ev) leaves self.data as newdata (wrote: it
\* assigned to self.data), the transport as newconn/newreconn, and either
\* raised or returned, after which the coroutine goes to nxt; checked tells
\* whether a connected() check follows the job.
FetchStep(p, ev, newdata, wrote, newconn, newreconn, raised, checked, nxt) ==
    LET evs == ran[p] \o <<ev>>
                 \o (IF ~raised /\ checked /\ ~newconn THEN <<"down">> ELSE <<>>)
    IN  /\ data' = newdata
        /\ conn' = newconn
        /\ reconn' = newreconn
        /\ strayWrite' = (strayWrite \/ (wrote /\ lock # p))
        /\ IF raised THEN Raise(p)
           ELSE IF nxt = "h_release" THEN EndFast(p, evs)
           ELSE IF nxt = "u_notify" THEN EndSlow(p, evs)
           ELSE /\ pc' = [pc EXCEPT ![p] = nxt]
                /\ ran' = [ran EXCEPT ![p] = evs]
                /\ resync' = [resync EXCEPT ![p] = IF nxt \in SlowFetchPos
                                                   THEN "no" ELSE @]
                /\ UNCHANGED <<caller, lock, pending, unmatched, last>>
        /\ UNCHANGED <<listeners, updateTimers, hwinfoTimers, stopped, detail>>

\* get_hwinfo, lines 175-236, as the job of line 132 or 161
get_hwinfo(p, r, nxt) ==
    FetchStep(p, "hwinfo",
              IF r.o = "raise" THEN data
              ELSE [data EXCEPT !["hwinfo"] = parse_api(@, r, FALSE)],
              r.o # "raise", ConnAfter(r), ReconnAfter(r),
              r.o = "raise" \/ DerivedRaises(r), TRUE, nxt)

\* line 132
HGetHwinfo(p) ==
    /\ pc[p] = "h_hwinfo"
    /\ \E r \in Responses : get_hwinfo(p, r, HAfterHwinfo(ConnAfter(r)))

\* get_plugin, lines 417-427, called at line 134
HGetPlugin(p) ==
    /\ pc[p] = "h_plugin"
    /\ \E r \in Responses :
         FetchStep(p, "plugin",
                   IF r.o = "raise" THEN data
                   ELSE [data EXCEPT !["plugin"] = parse_api(@, r, TRUE)],
                   r.o # "raise", ConnAfter(r), ReconnAfter(r),
                   r.o = "raise", TRUE, HAfterPlugin(ConnAfter(r)))

\* get_disk, lines 241-272, called at line 136: the enumeration replaces the
\* inventory; the ensure fields (the SMART slice) of the disks stay while
\* there are disk records and are gone with them
HGetDisk(p) ==
    /\ pc[p] = "h_disk"
    /\ \E r \in Responses :
         LET nd == parse_api(data["disk"], r, TRUE)
         IN  FetchStep(p, "disk",
                       IF r.o = "raise" THEN data
                       ELSE [data EXCEPT !["disk"] = nd,
                                         !["smart"] = IF nd = "empty"
                                                      THEN "empty" ELSE @],
                       r.o # "raise", ConnAfter(r), ReconnAfter(r),
                       r.o = "raise", FALSE, "h_release")

\* ----------------------------------------------------------- slow cycle
\* force_update, lines 143-146, and async_update up to its first await:
\* line 153 reads has_reconnected(), which answers once per reconnection
\* edge; when it is true the coroutine enters async_hwinfo_update (line 154)
\* and waits at line 128, otherwise it waits at line 157
force_update(p) ==
    /\ updateTimers > 0
    /\ FreeSlot(p)
    /\ reconn' = FALSE
    /\ IF reconn
       THEN /\ pc' = [pc EXCEPT ![p] = "h_wait"]
            /\ caller' = [caller EXCEPT ![p] = "async_update"]
            /\ resync' = [resync EXCEPT ![p] = "pending"]
       ELSE /\ pc' = [pc EXCEPT ![p] = "u_wait"]
            /\ caller' = [caller EXCEPT ![p] = "timer"]
            /\ resync' = [resync EXCEPT ![p] = "no"]
    /\ UNCHANGED <<lock, data, conn, listeners, updateTimers, hwinfoTimers,
                   stopped, pending, unmatched, ran, last, strayWrite>>
    /\ UNCHANGED detail

\* line 157, the wait succeeds; the coroutine goes on to line 161
UAcquire(p) ==
    /\ pc[p] = "u_wait"
    /\ lock = None
    /\ lock' = p
    /\ pc' = [pc EXCEPT ![p] = "u_hwinfo"]
    /\ UNCHANGED <<caller, data, conn, reconn, listeners, updateTimers,
                   hwinfoTimers, stopped, pending, unmatched, ran, resync, last,
                   strayWrite>>
    /\ UNCHANGED detail

\* UTimeout with the send of line 169 in a "finally:" of the try of lines
\* 156-159: the abandoned call signals a change
UTimeout_SendsSignal(p) ==
    /\ pc[p] = "u_wait"
    /\ lock # None
    /\ pc' = [pc EXCEPT ![p] = "idle"]
    /\ pending' = (pending \/ listeners > 0)
    /\ unmatched' = unmatched + 1
    /\ last' = Ended("slow", "timedout", ran[p], resync[p], "released")
    /\ resync' = [resync EXCEPT ![p] = "no"]
    /\ UNCHANGED <<caller, lock, data, conn, reconn, listeners, updateTimers,
                   hwinfoTimers, stopped, ran, strayWrite>>
    /\ UNCHANGED detail

\* lines 157-159, the 10 s wait expires while the lock stays locked:
\* async_update returns
UTimeout(p) ==
    /\ pc[p] = "u_wait"
    /\ lock # None
    /\ pc' = [pc EXCEPT ![p] = "idle"]
    /\ last' = Ended("slow", "timedout", ran[p], resync[p], "none")
    /\ resync' = [resync EXCEPT ![p] = "no"]
    /\ UNCHANGED <<caller, lock, data, conn, reconn, listeners, updateTimers,
                   hwinfoTimers, stopped, pending, unmatched, ran, strayWrite>>
    /\ UNCHANGED detail

\* line 161
UGetHwinfo(p) ==
    /\ pc[p] = "u_hwinfo"
    /\ \E r \in Responses : get_hwinfo(p, r, UAfterHwinfo(ConnAfter(r)))

\* get_fs, lines 361-391, called at line 163
UGetFs(p) ==
    /\ pc[p] = "u_fs"
    /\ \E r \in Responses :
         FetchStep(p, "fs",
                   IF r.o = "raise" THEN data
                   ELSE [data EXCEPT !["fs"] = parse_api(@, r, TRUE)],
                   r.o # "raise", ConnAfter(r), ReconnAfter(r),
                   r.o = "raise" \/ DerivedRaises(r), TRUE,
                   UAfterFs(ConnAfter(r)))

\* get_smart, lines 277-356, called at line 165: with no disk record there
\* is no query; a disk the transport returns nothing for is left as it is
\* (lines 306-307); otherwise the SMART fields of the record are written
UGetSmart(p) ==
    /\ pc[p] = "u_smart"
    /\ IF data["disk"] = "empty"
       THEN FetchStep(p, "smart", data, FALSE, conn, reconn, FALSE, TRUE,
                      UAfterSmart(conn))
       ELSE \E r \in Responses :
              FetchStep(p, "smart",
                        IF r.o = "ok" THEN [data EXCEPT !["smart"] = "set"]
                        ELSE data,
                        r.o = "ok", ConnAfter(r), ReconnAfter(r),
                        r.o = "raise", TRUE, UAfterSmart(ConnAfter(r)))

\* get_service, lines 396-412, called at line 167
UGetService(p) ==
    /\ pc[p] = "u_service"
    /\ \E r \in Responses :
         FetchStep(p, "service",
                   IF r.o = "raise" THEN data
                   ELSE [data EXCEPT !["service"] = parse_api(@, r, TRUE)],
                   r.o # "raise", ConnAfter(r), ReconnAfter(r),
                   r.o = "raise", FALSE, "u_notify")

\* ------------------------------------------------------------- consumers
\* the dispatcher hands the signal of line 169 to a connected consumer,
\* which re-reads self.data
Deliver ==
    /\ pending
    /\ pending' = FALSE
    /\ UNCHANGED <<pc, caller, lock, data, conn, reconn, listeners,
                   updateTimers, hwinfoTimers, stopped, unmatched, ran, resync,
                   last, strayWrite>>
    /\ UNCHANGED detail

Next ==
    \/ async_init
    \/ AddListener
    \/ async_reset
    \/ Deliver
    \/ \E p \in Procs : force_hwinfo_update(p)
    \/ \E p \in Procs : HAcquire(p)
    \/ \E p \in Procs : HTimeout(p)
    \/ \E p \in Procs : HGetHwinfo(p)
    \/ \E p \in Procs : HGetPlugin(p)
    \/ \E p \in Procs : HGetDisk(p)
    \/ \E p \in Procs : force_update(p)
    \/ \E p \in Procs : UAcquire(p)
    \/ \E p \in Procs : UTimeout(p)
    \/ \E p \in Procs : UGetHwinfo(p)
    \/ \E p \in Procs : UGetFs(p)
    \/ \E p \in Procs : UGetSmart(p)
    \/ \E p \in Procs : UGetService(p)

Spec == Init /\ [][Next]_vars

\* The coordinator as Home Assistant runs it between set-up and unload: the
\* set-up code has called async_init once, nothing calls async_reset, and
\* the dispatcher signal is sent whether or not a consumer is connected.
InitOnce == updateTimers = 0 /\ async_init

NextRun ==
    \/ InitOnce
    \/ \E p \in Procs : force_hwinfo_update(p)
    \/ \E p \in Procs : HAcquire(p)
    \/ \E p \in Procs : HTimeout(p)
    \/ \E p \in Procs : HGetHwinfo(p)
    \/ \E p \in Procs : HGetPlugin(p)
    \/ \E p \in Procs : HGetDisk(p)
    \/ \E p \in Procs : force_update(p)
    \/ \E p \in Procs : UAcquire(p)
    \/ \E p \in Procs : UTimeout(p)
    \/ \E p \in Procs : UGetHwinfo(p)
    \/ \E p \in Procs : UGetFs(p)
    \/ \E p \in Procs : UGetSmart(p)
    \/ \E p \in Procs : UGetService(p)

SpecRun == Init /\ [][NextRun]_vars

\* ------------------------------------------- the cycles, by their contents
\* What one api.query call can do when the content of the answer counts:
\* Responses with the content v the answer carries.
Answers ==
    [o : {"ok"}, full : BOOLEAN, v : 1..MaxVal]
        \cup [o : {"none", "raise"}, full : {FALSE}, v : {0}]

\* parse_api(data=old, source=r, key=...) by content: the content of the
\* answer; with no source, the old content when no key is given and an
\* empty collection otherwise
parse_content(old, r, keyed) ==
    IF r.o = "ok" THEN r.v ELSE IF keyed THEN 0 ELSE old

\* the category of self.data the sub-fetch at pos assigns to: get_smart
\* (lines 309-356) writes into the records of "disk"
CatAt(pos) ==
    CASE pos \in {"h_hwinfo", "u_hwinfo"} -> "hwinfo"
      [] pos = "h_plugin" -> "plugin"
      [] pos \in {"h_disk", "u_smart"} -> "disk"
      [] pos = "u_fs" -> "fs"
      [] pos = "u_service" -> "service"

\* get_smart with no disk record calls no query (the loop of line 278)
Queries(pos, s) == pos = "u_smart" => s["disk"] # 0

\* the sub-fetch at pos assigns to self.data: get_* assigns the result of
\* parse_api whenever the query returned; get_smart assigns only when the
\* query answered (lines 306-307)
Assigns(pos, s, r) ==
    /\ Queries(pos, s)
    /\ IF pos = "u_smart" THEN r.o = "ok" ELSE r.o # "raise"

\* self.data after the sub-fetch at pos got r from the transport
SnapAfter(pos, s, r) ==
    IF ~Assigns(pos, s, r) THEN s
    ELSE [s EXCEPT ![CatAt(pos)] =
            IF pos = "u_smart" THEN r.v
            ELSE parse_content(@, r, pos \notin {"h_hwinfo", "u_hwinfo"})]

\* the sub-fetch at pos ends in an exception: the query raised, or int() of
\* a default did (get_hwinfo line 198, get_fs lines 385-391)
StepRaises(pos, s, r) ==
    /\ Queries(pos, s)
    /\ \/ r.o = "raise"
       \/ pos \in {"h_hwinfo", "u_hwinfo", "u_fs"} /\ DerivedRaises(r)

\* where the cycle goes after the sub-fetch at pos, c being connected()
AfterAt(pos, c) ==
    CASE pos = "h_hwinfo" -> HAfterHwinfo(c)
      [] pos = "h_plugin" -> HAfterPlugin(c)
      [] pos = "h_disk" -> "h_release"
      [] pos = "u_hwinfo" -> UAfterHwinfo(c)
      [] pos = "u_fs" -> UAfterFs(c)
      [] pos = "u_smart" -> UAfterSmart(c)
      [] pos = "u_service" -> "u_notify"

\* a timer calls force_hwinfo_update while the lock is free: lines 117-132
StartFast ==
    /\ hwinfoTimers > 0
    /\ at = "idle"
    /\ at' = "h_hwinfo"
    /\ before' = snap
    /\ trail' = [kind |-> "fast", ran |-> <<>>]
    /\ UNCHANGED <<snap, up, cycleRest, core>>

\* a timer calls force_update while the lock is free: lines 143-161
StartSlow ==
    /\ updateTimers > 0
    /\ at = "idle"
    /\ at' = "u_hwinfo"
    /\ before' = snap
    /\ trail' = [kind |-> "slow", ran |-> <<>>]
    /\ UNCHANGED <<snap, up, cycleRest, core>>

\* the executor job of lines 132-136 or 161-167 at which the cycle stands,
\* and the lines after it up to the next await or to the release; an
\* exception leaves the lock locked for good ("stuck")
CycleStep ==
    /\ at \in FetchPos
    /\ \E r \in Answers :
         LET asked == Queries(at, snap)
             c == IF asked THEN ConnAfter(r) ELSE up
             nxt == AfterAt(at, c)
         IN  /\ ~asked => r.o = "none"
             /\ snap' = SnapAfter(at, snap, r)
             /\ up' = c
             /\ trail' = [trail EXCEPT !.ran =
                             Append(@, [cat |-> CatAt(at),
                                        val |-> IF Assigns(at, snap, r)
                                                THEN SnapAfter(at, snap, r)[CatAt(at)]
                                                ELSE 0,
                                        merged |-> asked /\ r.o = "ok",
                                        up |-> c])]
             /\ at' = IF StepRaises(at, snap, r) THEN "stuck"
                      ELSE IF nxt \in {"h_release", "u_notify"} THEN "idle"
                      ELSE nxt
    /\ UNCHANGED <<before, cycleRest, core>>

NextCycle ==
    \/ InitOnce
    \/ StartFast
    \/ StartSlow
    \/ CycleStep

\* the cycles one after the other (the lock admits one at a time), over the
\* contents of the snapshot
SpecCycle == Init /\ [][NextCycle]_vars

\* ------------------------------------------------- text, as Python has it
\* Text is a sequence of one-character strings.
Digits == <<"0", "1", "2", "3", "4", "5", "6", "7", "8", "9">>

IsDigit(c) == \E i \in 1..Len(Digits) : Digits[i] = c
DigitVal(c) == (CHOOSE i \in 1..Len(Digits) : Digits[i] = c) - 1

\* "%d" % n for n >= 0
RECURSIVE DecStr(_)
DecStr(n) ==
    IF n < 10 THEN <<Digits[n + 1]>>
    ELSE DecStr(n \div 10) \o <<Digits[(n % 10) + 1]>>

\* "%02d" % n for n >= 0: at least two digits, padded with "0"
Dec02Str(n) == IF n < 10 THEN <<"0">> \o DecStr(n) ELSE DecStr(n)

\* the value of a run of digits
RECURSIVE DigitsVal(_)
DigitsVal(s) ==
    IF s = <<>> THEN 0
    ELSE 10 * DigitsVal(SubSeq(s, 1, Len(s) - 1)) + DigitVal(s[Len(s)])

\* int(s) for a text s: an optional sign and one or more digits, ValueError
\* for anything else
PyIntOfText(s) ==
    LET signed == s # <<>> /\ s[1] \in {"-", "+"}
        body == IF signed THEN Tail(s) ELSE s
    IN  IF body = <<>> \/ \E i \in 1..Len(body) : ~IsDigit(body[i])
        THEN [ok |-> FALSE, v |-> 0]
        ELSE [ok |-> TRUE,
              v |-> IF signed /\ s[1] = "-" THEN 0 - DigitsVal(body)
                    ELSE DigitsVal(body)]

\* int(x) for a field x
PyInt(x) == IF x.t = "int" THEN [ok |-> TRUE, v |-> x.n] ELSE PyIntOfText(x.s)

\* s.split(sep) for a one-character sep
RECURSIVE Split(_, _)
Split(s, sep) ==
    IF \A i \in 1..Len(s) : s[i] # sep THEN <<s>>
    ELSE LET i == CHOOSE j \in 1..Len(s) :
                    s[j] = sep /\ \A k \in 1..(j - 1) : s[k] # sep
         IN  <<SubSeq(s, 1, i - 1)>> \o Split(SubSeq(s, i + 1, Len(s)), sep)

\* ------------------------------------------------------------ get_hwinfo
\* the defaults of lines 181-186 (parse_api puts them for absent fields)
DefaultText == <<"u", "n", "k", "n", "o", "w", "n">>
DefaultUptime ==
    <<"0", " ", "d", "a", "y", "s", " ", "0", " ", "h", "o", "u", "r", "s", " ">>
        \o <<"0", " ", "m", "i", "n", "u", "t", "e", "s", " ", "0", " ", "s", "e", "c", "o", "n", "d", "s">>

\* parse_api on one declared field: the value, or the default when the
\* answer does not carry the field
OrDefault(x, d) == IF x.t = "absent" THEN d ELSE x

\* self.data["hwinfo"] after line 177
Parsed(raw) ==
    [version |-> OrDefault(raw.version, Txt(DefaultText)),
     uptime |-> OrDefault(raw.uptime, Txt(DefaultUptime)),
     memUsed |-> OrDefault(raw.memUsed, Num(0)),
     memTotal |-> OrDefault(raw.memTotal, Num(0)),
     cpuUsage |-> OrDefault(raw.cpuUsage, Num(0))]

\* UptimeText with the hours taken from the whole count (pos / 3600)
UptimeText_HoursOfTotal(pos) ==
    DecStr(pos \div (3600 * 24)) \o <<" ", "d", "a", "y", "s", " ">>
        \o Dec02Str(pos \div 3600) \o <<" ", "h", "o", "u", "r", "s", " ">>
        \o Dec02Str((pos % 3600) \div 60) \o <<" ", "m", "i", "n", "u", "t", "e", "s", " ">>
        \o Dec02Str(pos % 60) \o <<" ", "s", "e", "c", "o", "n", "d", "s">>

\* lines 201-212: the text made of pos seconds; "%d" of the quotient of a
\* true division is its whole part
UptimeText(pos) ==
    LET day == pos \div (3600 * 24)
        rem1 == pos % (3600 * 24)
        hour == rem1 \div 3600
        rem2 == rem1 % 3600
        mins == rem2 \div 60
        secs == rem2 % 60
    IN  DecStr(day) \o <<" ", "d", "a", "y", "s", " ">>
            \o Dec02Str(hour) \o <<" ", "h", "o", "u", "r", "s", " ">>
            \o Dec02Str(mins) \o <<" ", "m", "i", "n", "u", "t", "e", "s", " ">>
            \o Dec02Str(secs) \o <<" ", "s", "e", "c", "o", "n", "d", "s">>

\* lines 198-217: res, the text whose words lines 219-222 read; ok is false
\* when an int() or the split raises
UptimeRes(h) ==
    LET major == PyIntOfText(Split(h.version.s, ".")[1])
        secs == PyInt(h.uptime)
        pos == IF secs.v < 0 THEN 0 - secs.v ELSE secs.v
    IN  IF h.version.t # "str" \/ ~major.ok THEN [ok |-> FALSE, res |-> <<>>]
        ELSE IF major.v > 5
        THEN IF ~secs.ok THEN [ok |-> FALSE, res |-> <<>>]
             ELSE [ok |-> TRUE,
                   res |-> IF secs.v < 0 THEN <<"-">> \o UptimeText(pos)
                           ELSE UptimeText(pos)]
        ELSE IF h.uptime.t # "str" THEN [ok |-> FALSE, res |-> <<>>]
             ELSE [ok |-> TRUE, res |-> h.uptime.s]

\* lines 215-222: tmp_uptime, summed from words 0, 2, 4 and 6 of res
UptimeTotal(res) ==
    LET tmp == Split(res, " ")
        d == PyIntOfText(tmp[1])
        h == PyIntOfText(tmp[3])
        m == PyIntOfText(tmp[5])
        c == PyIntOfText(tmp[7])
    IN  IF Len(tmp) < 7 THEN [ok |-> FALSE, v |-> 0]
        ELSE IF ~(d.ok /\ h.ok /\ m.ok /\ c.ok) THEN [ok |-> FALSE, v |-> 0]
        ELSE [ok |-> TRUE, v |-> d.v * 86400 + h.v * 3600 + m.v * 60 + c.v]

\* round(num / den, 1) in tenths, for den > 0 and num >= 0: the nearest
\* tenth; halfway between two tenths the binary value of the quotient
\* decides, so either of them
Round1(num, den) ==
    LET q == (10 * num) \div den
        r == (10 * num) % den
    IN  IF 2 * r < den THEN {q}
        ELSE IF 2 * r > den THEN {q + 1}
        ELSE {q, q + 1}

\* MemUsage without the guard of line 233
MemUsage_Unguarded(used, total) ==
    IF total = 0 THEN {[raised |-> TRUE, tenths |-> 0]}
    ELSE {[raised |-> FALSE, tenths |-> t] : t \in Round1(used * 100, total)}

\* lines 230-236: memUsage, in tenths of a percent
MemUsage(used, total) ==
    IF total > 0
    THEN {[raised |-> FALSE, tenths |-> t] : t \in Round1(used * 100, total)}
    ELSE {[raised |-> FALSE, tenths |-> 0]}

\* get_hwinfo has raised
Failed == [NotDerived EXCEPT !.done = TRUE, !.raised = TRUE]

\* what get_hwinfo (lines 194-236) can leave for the answer raw
Derived(raw) ==
    LET h == Parsed(raw)
        u == UptimeRes(h)
        tot == UptimeTotal(u.res)
        used == PyInt(h.memUsed)
        total == PyInt(h.memTotal)
    IN  IF ~raw.connected THEN {[NotDerived EXCEPT !.done = TRUE]}
        ELSE IF ~u.ok \/ ~tot.ok \/ h.cpuUsage.t # "int"
                \/ ~used.ok \/ ~total.ok
        THEN {Failed}
        ELSE {[done |-> TRUE, raised |-> mu.raised, derived |-> ~mu.raised,
               res |-> u.res, tmp_uptime |-> tot.v,
               memUsage |-> mu.tenths, cpuUsage |-> cu]
              : mu \in MemUsage(used.v, total.v),
                cu \in Round1(h.cpuUsage.n, 10)}

Version6 == <<"6", ".", "0", ".", "0">>

\* the device answers System.getInformation: a version 6 device with some
\* uptime count
HwAnswerUptime ==
    /\ ~hwRaw.asked
    /\ \E n \in (0 - MaxNegUptime)..MaxUptime :
         hwRaw' = [asked |-> TRUE, connected |-> TRUE,
                   version |-> Txt(Version6), uptime |-> Num(n),
                   memUsed |-> Num(50), memTotal |-> Num(200),
                   cpuUsage |-> Num(125)]
    /\ UNCHANGED <<hwOut, hwRest, core>>

\* the device answers with some pair of memory figures
HwAnswerMem ==
    /\ ~hwRaw.asked
    /\ \E a \in 0..MaxMem, b \in 0..MaxMem :
         hwRaw' = [asked |-> TRUE, connected |-> TRUE,
                   version |-> Txt(Version6), uptime |-> Num(0),
                   memUsed |-> Num(a), memTotal |-> Num(b),
                   cpuUsage |-> Absent]
    /\ UNCHANGED <<hwOut, hwRest, core>>

\* the device answers, or the query returns nothing, with one of the
\* versions and uptime forms, fields missing, the connection up or down
HwAnswerMixed ==
    /\ ~hwRaw.asked
    /\ hwRaw' \in
         [asked : {TRUE}, connected : BOOLEAN,
          version : {Absent, Txt(Version6), Txt(<<"5", ".", "6", ".", "2", "6">>),
                     Txt(<<"1", "0", ".", "1">>)},
          uptime : {Absent, Num(61), Txt(<<"6", "1">>),
                    Txt(<<"1", " ", "d", "a", "y", "s", " ", "2", " ", "h", "o", "u", "r", "s", " ">>
                        \o <<"3", " ", "m", "i", "n", "u", "t", "e", "s", " ", "4", " ", "s", "e", "c", "o", "n", "d", "s">>)},
          memUsed : {Absent, Num(512)},
          memTotal : {Absent},
          cpuUsage : {Absent, Num(7)}]
    /\ UNCHANGED <<hwOut, hwRest, core>>

\* get_hwinfo, lines 175-236, on the answer
HwDerive ==
    /\ hwRaw.asked
    /\ ~hwOut.done
    /\ hwOut' \in Derived(hwRaw)
    /\ UNCHANGED <<hwRaw, hwRest, core>>

NextHwinfo ==
    \/ HwAnswerUptime
    \/ HwAnswerMem
    \/ HwAnswerMixed
    \/ HwDerive

\* get_hwinfo on one answer of the device
SpecHwinfo == Init /\ [][NextHwinfo]_vars

\* ------------------------------------------------- get_disk and get_smart
\* the default "unknown" of lines 250-270 and 296-300
Unknown == Txt(DefaultText)

\* the devices the machine may have: a hard disk, an optical drive, an SD
\* card and a bcache device
DevNames ==
    {<<"s", "d", "a">>, <<"s", "r", "0">>,
     <<"m", "m", "c", "b", "l", "k", "0">>,
     <<"b", "c", "a", "c", "h", "e", "0">>}

\* what a row of the enumeration can carry for size: nothing, or a size
SizeAnswers == {Absent, Txt(<<"8", "0", "0", "0">>)}

\* DiskMgmt.enumerateDevices returned nothing
NoRows == [o |-> "none", rows |-> [k \in {} |-> Absent]]

\* parse_api with a key: the keys of the result are those of the rows of the
\* answer, none when nothing came
KeyedRows(src) == IF src.o = "none" THEN {} ELSE DOMAIN src.rows

\* parse_api, an ensure field of the record of key k: what the record of k
\* in the existing data holds, the default for a key that is new
EnsureVal(old, k, name) == IF k \in DOMAIN old THEN old[k][name] ELSE Unknown

\* get_disk handing parse_api no existing data
DiskExisting_Empty == [k \in {} |-> Absent]

\* line 244: the existing data get_disk hands to parse_api
DiskExisting == disk

\* lines 243-271: the records parse_api makes of the enumeration src; size
\* is a field of the enumeration, serialnumber and Temperature_Celsius
\* stand for the sixteen ensure fields
DiskParsed(old, src) ==
    [k \in KeyedRows(src) |->
       [devicename |-> k,
        size |-> OrDefault(src.rows[k], Unknown),
        serialnumber |-> EnsureVal(old, k, "serialnumber"),
        Temperature_Celsius |-> EnsureVal(old, k, "Temperature_Celsius")]]

\* get_smart has sent no query for the disk
NotQueried == [info |-> "notasked", attrs |-> "notasked"]

\* get_disk, lines 241-272
get_disk ==
    /\ \E src \in {NoRows} \cup
                  {[o |-> "ok", rows |-> r] :
                     r \in UNION {[D -> SizeAnswers] : D \in SUBSET DevNames}} :
         /\ disk' = DiskParsed(DiskExisting, src)
         /\ listed' = DOMAIN src.rows
         /\ queried' = [k \in KeyedRows(src) |-> NotQueried]
    /\ did' = "get_disk"
    /\ UNCHANGED <<diskRest, core>>

\* s.startswith(p)
StartsWith(s, p) == Len(s) >= Len(p) /\ SubSeq(s, 1, Len(p)) = p

\* Skipped without the test of line 285
Skipped_NoBcache(name) ==
    \/ StartsWith(name, <<"m", "m", "c", "b", "l", "k">>)
    \/ StartsWith(name, <<"s", "r">>)

\* lines 279-286: get_smart passes over the disk of this device name
Skipped(name) ==
    \/ StartsWith(name, <<"m", "m", "c", "b", "l", "k">>)
    \/ StartsWith(name, <<"s", "r">>)
    \/ StartsWith(name, <<"b", "c", "a", "c", "h", "e">>)

\* what Smart.getInformation can return for a disk: nothing, or a record
\* with or without a serial number
NoInfo == [o |-> "none", serialnumber |-> Absent]
SmartInfoAnswers ==
    {NoInfo}
      \cup {[o |-> "ok", serialnumber |-> x] :
              x \in {Absent} \cup {Num(v) : v \in 1..MaxVal}}

\* what Smart.getAttributes can return for a disk: nothing, or rows with or
\* without one for Temperature_Celsius, whose rawvalue is missing, a number
\* or a text with a unit after the number
NoAttrs == [o |-> "none", temp |-> FALSE, rawvalue |-> Absent]
SmartAttrAnswers ==
    {NoAttrs}
      \cup {[o |-> "ok", temp |-> FALSE, rawvalue |-> Absent]}
      \cup {[o |-> "ok", temp |-> TRUE, rawvalue |-> x] :
              x \in {Absent} \cup {Num(v) : v \in 1..MaxVal}
                     \cup {Txt(DecStr(v) \o <<" ", "C">>) : v \in 1..MaxVal}}

\* lines 348-354: the rawvalue up to its first space when it is a text
RawPrefix(x) ==
    IF x.t = "str" /\ \E j \in 1..Len(x.s) : x.s[j] = " "
    THEN Txt(Split(x.s, " ")[1])
    ELSE x

\* lines 278-356, the body of the loop for the disk record rec when the two
\* queries return i and a: the record it leaves and the queries it sent
SmartOne(rec, i, a) ==
    IF Skipped(rec.devicename) THEN [rec |-> rec, q |-> NotQueried]
    ELSE IF i.o = "none"
    THEN [rec |-> rec, q |-> [info |-> "none", attrs |-> "notasked"]]
    ELSE LET r1 == [rec EXCEPT !.serialnumber = OrDefault(i.serialnumber, Unknown)]
         IN  IF a.o = "none"
             THEN [rec |-> r1, q |-> [info |-> "ok", attrs |-> "none"]]
             ELSE [rec |-> IF a.temp
                           THEN [r1 EXCEPT !.Temperature_Celsius =
                                     RawPrefix(OrDefault(a.rawvalue, Num(0)))]
                           ELSE r1,
                   q |-> [info |-> "ok", attrs |-> "ok"]]

\* get_smart, lines 277-356; the device answers the queries that are sent
get_smart ==
    /\ LET asked == {k \in DOMAIN disk : ~Skipped(disk[k].devicename)}
       IN  \E i \in [asked -> SmartInfoAnswers], a \in [asked -> SmartAttrAnswers] :
             LET out == [k \in DOMAIN disk |->
                           IF k \in asked THEN SmartOne(disk[k], i[k], a[k])
                           ELSE SmartOne(disk[k], NoInfo, NoAttrs)]
             IN  /\ disk' = [k \in DOMAIN disk |-> out[k].rec]
                 /\ queried' = [k \in DOMAIN disk |-> out[k].q]
    /\ did' = "get_smart"
    /\ UNCHANGED <<listed, diskRest, core>>

NextDisk ==
    \/ get_disk
    \/ get_smart

\* get_disk and get_smart one after the other, in any order
SpecDisk == Init /\ [][NextDisk]_vars

\* ------------------------------------------------------- interval timers
\* line 82: the period, in seconds, of the timer that calls force_update
UpdateEvery_Hourly == 60 * 60

UpdateEvery == 60
\* line 85: the period of the timer that calls force_hwinfo_update
HwinfoEvery == 3600

\* the set-up code calls async_init, before any time has passed
ClockSetUp == now = 0 /\ async_init

\* how many calls the timers of one callback make when the clock reaches t:
\* async_track_time_interval calls back every `every` seconds after the
\* registration, once per registered timer
Due(timers, every, t) == IF t % every = 0 THEN timers ELSE 0

\* one second passes; every interval timer registered at lines 81-86 whose
\* period has elapsed calls its callback, which starts a cycle
\* (force_update, force_hwinfo_update)
Tick ==
    /\ now < Horizon
    /\ now' = now + 1
    /\ updateFired' = updateFired + Due(updateTimers, UpdateEvery, now + 1)
    /\ hwinfoFired' = hwinfoFired + Due(hwinfoTimers, HwinfoEvery, now + 1)
    /\ UNCHANGED <<clockRest, core>>

NextClock ==
    \/ ClockSetUp
    \/ Tick

\* the timers of the coordinator against the wall clock
SpecClock == Init /\ [][NextClock]_vars

\* ================================================================ claims
\* the order of the sub-fetches, lines 132-136 and 161-167
FastOrder == <<"hwinfo", "plugin", "disk">>
SlowOrder == <<"hwinfo", "fs", "smart", "service">>

\* the coroutines that are between acquiring self.lock and releasing it
InCycle == {p \in Procs : pc[p] \in FetchPos}
Waiting == {p \in Procs : pc[p] \in {"h_wait", "u_wait"}}

\* C1: mutual exclusion.  At most one cycle is between its lock acquisition
\* and its release, that cycle is the owner of the lock, and every write to
\* a category of self.data was made by the cycle owning the lock.
C1_MutualExclusion ==
    /\ Cardinality(InCycle) <= 1
    /\ \A p \in InCycle : lock = p
    /\ lock \in Procs => lock \in InCycle
    /\ ~strayWrite

\* C1 happens: one cycle owns the lock and has merged a sub-fetch while
\* another trigger waits for the lock
C1_Witness ==
    \E p \in InCycle : ran[p] # <<>> /\ Waiting # {} /\ data["hwinfo"] = "set"

\* C2 (as claimed): a cycle that acquired the lock has released it by the
\* time it returns, also when a sub-fetch raised: the lock is never held by
\* a coroutine that is not in a cycle.
C2_ReleasedOnReturn ==
    /\ lock # Orphan
    /\ \A p \in Procs : pc[p] \notin FetchPos => lock # p

\* C3 (as claimed): a trigger whose lock wait expired left self.data as it
\* was when the trigger started: it ran no sub-fetch, neither in the
\* abandoned cycle nor in a resync before it.
C3_TimeoutLeavesSnapshot ==
    last.how = "timedout" => last.ran = <<>> /\ last.resync # "done"

\* C3 (amended): the step in which a lock wait expires (line 130 or 159)
\* changes no category of self.data and sends no signal, and the cycle it
\* abandons has run no sub-fetch; a resync that ran before the wait of line
\* 157 keeps what it wrote.
C3_TimeoutIsSilentSkip ==
    [][\A p \in Procs :
         (pc[p] \in {"h_wait", "u_wait"} /\ pc'[p] # pc[p]
                                         /\ pc'[p] \notin FetchPos)
         => /\ data' = data
            /\ pending' = pending
            /\ unmatched' = unmatched
            /\ ran'[p] = <<>>
            /\ pc'[p] = "idle" => /\ last'.how = "timedout"
                                  /\ last'.ran = <<>>
                                  /\ last'.sentWith = "none"]_vars

\* C3 happens: the 10 s wait of a slow trigger expired after its resync had
\* run under the lock
C3_Witness ==
    last.kind = "slow" /\ last.how = "timedout" /\ last.resync = "done"

\* C4: every async_update call that completes sends the change signal
\* once and an abandoned one sends none: the sends and the completed calls
\* are equal in number.
C4_OneSignalPerCompletedCycle ==
    /\ unmatched = 0
    /\ (last.kind = "slow" /\ last.how = "returned") => last.sentWith # "none"
    /\ last.how \in {"timedout", "raised"} => last.sentWith = "none"

\* C4 happens: a slow cycle that lost the connection after its first
\* sub-fetch completed and sent its signal
C4_Witness ==
    /\ last.kind = "slow" /\ last.how = "returned"
    /\ last.ran = <<"hwinfo", "down">>
    /\ last.sentWith # "none"

RanBefore(pos) ==
    CASE pos = "h_hwinfo" -> <<>>
      [] pos = "h_plugin" -> SubSeq(FastOrder, 1, 1)
      [] pos = "h_disk" -> SubSeq(FastOrder, 1, 2)
      [] pos = "u_hwinfo" -> <<>>
      [] pos = "u_fs" -> SubSeq(SlowOrder, 1, 1)
      [] pos = "u_smart" -> SubSeq(SlowOrder, 1, 2)
      [] pos = "u_service" -> SubSeq(SlowOrder, 1, 3)

\* evs is a whole run of order, or some of its first sub-fetches followed by
\* the observation that the connection is down, and nothing after it
ShortCircuited(evs, order) ==
    \/ evs = order
    \/ \E k \in 1..(Len(order) - 1) : evs = SubSeq(order, 1, k) \o <<"down">>

C7_ResyncBeforeSlowFetch ==
    \A p \in Procs : pc[p] = "u_hwinfo" => resync[p] \in {"no", "done"}

\* C8 (as claimed): a consumer that re-reads self.data on receipt of the
\* signal never reads while a cycle owns the lock with sub-fetches to run.
C8_ReaderIsolation ==
    [][(pending /\ ~pending') => InCycle = {}]_vars

\* C9: no run of async_hwinfo_update sends the signal; every send is that
\* of a slow cycle whose sub-fetches have all been run or skipped.
C9_FastCyclesNeverNotify ==
    /\ unmatched <= 0
    /\ last.kind = "fast" => last.sentWith = "none"
    /\ last.sentWith # "none" =>
         /\ last.kind = "slow" /\ last.how = "returned"
         /\ ShortCircuited(last.ran, SlowOrder)

\* C9 happens: a fast cycle ran its three sub-fetches and returned without
\* a signal
C9_Witness ==
    /\ last.kind = "fast" /\ last.how = "returned"
    /\ last.ran = FastOrder /\ last.sentWith = "none" /\ unmatched = 0

\* a timer callback starts in slot p
Starts(p) == pc[p] = "idle" /\ pc'[p] \in {"h_wait", "u_wait"}

\* C10 (as claimed): after async_reset has returned, no timer starts a fast
\* or slow cycle, and the listener list is empty.
C10_StopCancelsTimers ==
    [][stopped => listeners' = 0 /\ \A p \in Procs : ~Starts(p)]_vars

\* C11 (as claimed): however often async_init was called, there is one
\* interval timer per callback, and each elapsed period has started one
\* cycle of that callback.
C11_InitIdempotent ==
    /\ updateTimers <= 1 /\ hwinfoTimers <= 1
    /\ updateFired <= now \div UpdateEvery
    /\ hwinfoFired <= now \div HwinfoEvery

CatOrder(kind) ==
    IF kind = "fast" THEN <<"hwinfo", "plugin", "disk">>
    ELSE <<"hwinfo", "fs", "disk", "service">>

\* the first sub-fetch of the trail after which connected() was false, 0
\* when there is none
LostAt(evs) ==
    IF \A i \in 1..Len(evs) : evs[i].up THEN 0
    ELSE CHOOSE i \in 1..Len(evs) :
           ~evs[i].up /\ \A j \in 1..(i - 1) : evs[j].up

\* C13: what the sub-fetches of a cycle merged before the one that lost
\* the connection is still in self.data, and the categories of the
\* sub-fetches after that one are as they were when the cycle started.
C13_PartialUpdateKept ==
    LET order == CatOrder(trail.kind)
        k == LostAt(trail.ran)
    IN  /\ \A i \in 1..Len(trail.ran) :
             (trail.ran[i].merged /\ (k = 0 \/ i < k))
             => snap[trail.ran[i].cat] = trail.ran[i].val
        /\ k > 0 => \A j \in (k + 1)..Len(order) :
                      snap[order[j]] = before[order[j]]

\* C13 happens: a slow cycle merged new hardware info, lost the connection
\* in get_fs and returned, with disk and service records from before
C13_Witness ==
    /\ at = "idle" /\ trail.kind = "slow" /\ Len(trail.ran) = 2
    /\ trail.ran[1].merged /\ ~trail.ran[2].up
    /\ before["hwinfo"] # 0 /\ snap["hwinfo"] # before["hwinfo"]
    /\ snap["disk"] # 0 /\ snap["service"] # 0

\* get_hwinfo was called with the connection up on the answer of a device
\* of major version 6 that reports an uptime count
OnCount ==
    /\ hwOut.done /\ hwRaw.connected
    /\ hwRaw.version = Txt(Version6) /\ hwRaw.uptime.t = "int"

\* C14: for an uptime count n >= 0 of a device of major version above 5,
\* get_hwinfo makes the text "D days HH hours MM minutes SS seconds" with
\* HH < 24, MM < 60 and SS < 60 on two digits, and the total it sums from
\* the four numbers is n; 90061 gives "1 days 01 hours 01 minutes 01
\* seconds".
C14_UptimeRoundTrip ==
    (OnCount /\ hwRaw.uptime.n >= 0) =>
        LET n == hwRaw.uptime.n
            w == Split(hwOut.res, " ")
            d == PyIntOfText(w[1])
            h == PyIntOfText(w[3])
            m == PyIntOfText(w[5])
            c == PyIntOfText(w[7])
        IN  /\ ~hwOut.raised
            /\ Len(w) = 8
            /\ w[2] = <<"d", "a", "y", "s">> /\ w[4] = <<"h", "o", "u", "r", "s">>
            /\ w[6] = <<"m", "i", "n", "u", "t", "e", "s">>
            /\ w[8] = <<"s", "e", "c", "o", "n", "d", "s">>
            /\ d.ok /\ h.ok /\ m.ok /\ c.ok
            /\ Len(w[3]) = 2 /\ Len(w[5]) = 2 /\ Len(w[7]) = 2
            /\ d.v >= 0 /\ h.v \in 0..23 /\ m.v \in 0..59 /\ c.v \in 0..59
            /\ d.v * 86400 + h.v * 3600 + m.v * 60 + c.v = n
            /\ hwOut.tmp_uptime = n
            /\ n = 90061 =>
                 hwOut.res = <<"1", " ", "d", "a", "y", "s", " ", "0", "1", " ", "h", "o", "u", "r", "s", " ">>
                               \o <<"0", "1", " ", "m", "i", "n", "u", "t", "e", "s", " ", "0", "1", " ", "s", "e", "c", "o", "n", "d", "s">>

\* C14 happens: get_hwinfo derived the uptime of a version 6 device that
\* reported 90061 seconds
C14_Witness ==
    /\ OnCount /\ hwRaw.uptime.n = 90061
    /\ hwOut.derived /\ hwOut.tmp_uptime = 90061
    /\ Split(hwOut.res, " ")[1] = <<"1">>

\* the uptime lines of get_hwinfo (198-222) go through on the answer raw
UptimeDerives(raw) ==
    LET u == UptimeRes(Parsed(raw))
    IN  u.ok /\ UptimeTotal(u.res).ok

\* C15: when get_hwinfo gets as far as line 230 it does not raise, and
\* memUsage is 0 when memTotal is 0 and else the tenth nearest to
\* memUsed / memTotal * 100; 50 of 200 gives 25.0.
C15_MemUsage ==
    (hwOut.done /\ hwRaw.connected /\ UptimeDerives(hwRaw)) =>
      LET used == Parsed(hwRaw).memUsed.n
          total == Parsed(hwRaw).memTotal.n
          off == hwOut.memUsage * total - 1000 * used
      IN  /\ ~hwOut.raised /\ hwOut.derived
          /\ total = 0 => hwOut.memUsage = 0
          /\ total > 0 => 2 * off <= total /\ 2 * off >= 0 - total
          /\ (used = 50 /\ total = 200) => hwOut.memUsage = 250

\* C15 happens: get_hwinfo derived memUsage for memUsed = 200, memTotal = 0
C15_Witness ==
    /\ hwOut.done /\ hwOut.derived
    /\ hwRaw.memUsed = Num(200) /\ hwRaw.memTotal = Num(0)
    /\ hwOut.memUsage = 0

\* C18 (as claimed): when the answer lacks version or uptime and parse_api
\* puts the declared default, get_hwinfo completes without an exception.
C18_DefaultsNeverFail ==
    (hwOut.done /\ hwRaw.connected
       /\ (hwRaw.version = Absent \/ hwRaw.uptime = Absent))
    => ~hwOut.raised

\* C19 (as claimed): for a negative uptime count n the text is that of -n
\* with "-" in front, and the total summed from its four numbers is n.
C19_NegativeUptimeTotal ==
    (OnCount /\ hwRaw.uptime.n < 0) =>
        /\ hwOut.res = <<"-">> \o UptimeText(0 - hwRaw.uptime.n)
        /\ hwOut.tmp_uptime = hwRaw.uptime.n

\* the device name starts with one of the prefixes of removable and virtual
\* devices
RemovableOrVirtual(k) ==
    \/ StartsWith(k, <<"m", "m", "c", "b", "l", "k">>)
    \/ StartsWith(k, <<"s", "r">>)
    \/ StartsWith(k, <<"b", "c", "a", "c", "h", "e">>)

\* C16: get_smart sends no SMART query for a disk whose device name starts
\* with "mmcblk", "sr" or "bcache" and changes no field of its record; a
\* disk for which the first query returned nothing keeps every field, and
\* one for which the second returned nothing keeps its SMART counters.
C16_SmartFrame ==
    [][did' = "get_smart" =>
         /\ DOMAIN disk' = DOMAIN disk
         /\ \A k \in DOMAIN disk :
              /\ RemovableOrVirtual(k) =>
                   queried'[k] = NotQueried /\ disk'[k] = disk[k]
              /\ queried'[k].info = "none" =>
                   queried'[k].attrs = "notasked" /\ disk'[k] = disk[k]
              /\ queried'[k].attrs = "none" =>
                   disk'[k].Temperature_Celsius = disk[k].Temperature_Celsius]_vars

\* C16 happens: get_smart ran over a bcache device, an optical drive and a
\* hard disk whose first query returned nothing, and the hard disk still
\* has the serial number and temperature of an earlier get_smart
C16_Witness ==
    /\ did = "get_smart"
    /\ {<<"b", "c", "a", "c", "h", "e", "0">>, <<"s", "r", "0">>,
        <<"s", "d", "a">>} \subseteq DOMAIN disk
    /\ queried[<<"b", "c", "a", "c", "h", "e", "0">>] = NotQueried
    /\ queried[<<"s", "d", "a">>].info = "none"
    /\ disk[<<"s", "d", "a">>].serialnumber = Num(2)
    /\ disk[<<"s", "d", "a">>].Temperature_Celsius = Txt(<<"1">>)

\* C17: a get_disk whose enumeration lists a disk that already has a record
\* leaves the record's serialnumber and Temperature_Celsius as they were;
\* only the records of disks the enumeration does not list go.
C17_EnsureKept ==
    [][did' = "get_disk" =>
         \A k \in DOMAIN disk :
           IF k \in listed'
           THEN /\ k \in DOMAIN disk'
                /\ disk'[k].serialnumber = disk[k].serialnumber
                /\ disk'[k].Temperature_Celsius = disk[k].Temperature_Celsius
           ELSE k \notin DOMAIN disk']_vars

\* C17 happens: get_disk ran after get_smart had written a serial number
\* and a temperature onto the hard disk, and the record has them still
C17_Witness ==
    /\ did = "get_disk"
    /\ <<"s", "d", "a">> \in listed
    /\ disk[<<"s", "d", "a">>].serialnumber = Num(1)
    /\ disk[<<"s", "d", "a">>].Temperature_Celsius = Num(2)
    /\ disk[<<"s", "d", "a">>].size = Unknown

====
